---- MODULE Spec2Model ----
(***************************************************************************)
(* E-Learning API (src/main.py, src/schemas.py): a FastAPI application     *)
(* whose handlers validate a payload against a pydantic schema and call a  *)
(* document store through create_document / get_documents.                 *)
(*                                                                         *)
(* Text that the catalogue search reads (title, subtitle, description,     *)
(* tags) and identifiers are sequences of one-character strings, so that   *)
(* case folding, regular-expression search and ObjectId parsing are        *)
(* computed.  Optional[T] is None (the empty tuple) or Some(x).  Prices    *)
(* are in cents.  A payload is a function from the field names it carries  *)
(* to their values.                                                        *)
(***************************************************************************)
EXTENDS Integers, Sequences, FiniteSets, TLC

\* ------------------------------------------------------------------------
\* Bounds of the model
\* ------------------------------------------------------------------------

\* Requests the clients send in one behaviour.
MaxReqs == 2

\* ------------------------------------------------------------------------
\* Text
\* ------------------------------------------------------------------------

None == <<>>
Some(x) == <<x>>

\* Python truthiness of an Optional[str] query parameter (`if tag:`).
Truthy(opt) == opt # None /\ opt[1] # <<>>

UpperToLower ==
    [A |-> "a", B |-> "b", C |-> "c", D |-> "d", E |-> "e", F |-> "f", G |-> "g",
     H |-> "h", I |-> "i", J |-> "j", K |-> "k", L |-> "l", M |-> "m", N |-> "n",
     O |-> "o", P |-> "p", Q |-> "q", R |-> "r", S |-> "s", T |-> "t", U |-> "u",
     V |-> "v", W |-> "w", X |-> "x", Y |-> "y", Z |-> "z"]

\* Case folding of the "$options": "i" search.
Lower(c) == IF c \in DOMAIN UpperToLower THEN UpperToLower[c] ELSE c

\* {"$regex": pat, "$options": "i"} on one string: an unanchored,
\* case-insensitive search in which "." stands for any character and every
\* other character of the patterns used here stands for itself.
RegexSearch(pat, text) ==
    \E start \in 1..(Len(text) - Len(pat) + 1) :
        \A j \in 1..Len(pat) :
            pat[j] = "." \/ Lower(pat[j]) = Lower(text[start + j - 1])

\* ------------------------------------------------------------------------
\* Identifiers (bson ObjectId: 12 bytes, written as 24 hexadecimal digits)
\* ------------------------------------------------------------------------

ObjectIdLen == 24

HexChars == <<"0","1","2","3","4","5","6","7","8","9","a","b","c","d","e","f">>

IsHex(c) == \E v \in 1..16 : HexChars[v] = Lower(c)

HexVal(c) == (CHOOSE v \in 1..16 : HexChars[v] = Lower(c)) - 1

\* ObjectId.is_valid(course_id) for a string.
is_valid(s) == Len(s) = ObjectIdLen /\ \A i \in 1..Len(s) : IsHex(s[i])

\* ObjectId(course_id): the digits' values; upper and lower case parse alike.
ObjectId(s) == [i \in 1..Len(s) |-> HexVal(s[i])]

\* str(oid): lower-case hexadecimal.
ObjectIdStr(oid) == [i \in 1..Len(oid) |-> HexChars[oid[i] + 1]]

\* The identifier the store gives its n-th inserted document: unique per n.
NewObjectId(n) ==
    [i \in 1..ObjectIdLen |->
        IF i = 1 THEN 10
        ELSE IF i = ObjectIdLen THEN n % 16
        ELSE IF i = ObjectIdLen - 1 THEN (n \div 16) % 16
        ELSE 0]

\* ------------------------------------------------------------------------
\* Schemas (src/schemas.py)
\* ------------------------------------------------------------------------

Has(p, f) == f \in DOMAIN p

Get(p, f, default) == IF Has(p, f) THEN p[f] ELSE default

\* Course: required fields present, price >= 0.
ValidCourse(p) ==
    /\ {"title", "description", "instructor_name", "instructor_email"} \subseteq DOMAIN p
    /\ Get(p, "price", 0) >= 0

\* Mutant of Course: `level` takes the default of `language`.
CourseLevelDefaultSwapped(p) ==
    [title            |-> p.title,
     subtitle         |-> Get(p, "subtitle", None),
     description      |-> p.description,
     instructor_name  |-> p.instructor_name,
     instructor_email |-> p.instructor_email,
     price            |-> Get(p, "price", 0),
     thumbnail_url    |-> Get(p, "thumbnail_url", None),
     tags             |-> Get(p, "tags", <<>>),
     language         |-> Get(p, "language", "English"),
     level            |-> Get(p, "level", "English")]

\* Course(**payload): the validated model, defaults applied.
Course(p) ==
    [title            |-> p.title,
     subtitle         |-> Get(p, "subtitle", None),
     description      |-> p.description,
     instructor_name  |-> p.instructor_name,
     instructor_email |-> p.instructor_email,
     price            |-> Get(p, "price", 0),
     thumbnail_url    |-> Get(p, "thumbnail_url", None),
     tags             |-> Get(p, "tags", <<>>),
     language         |-> Get(p, "language", "English"),
     level            |-> Get(p, "level", "Beginner")]

\* Lesson: required fields present, order >= 0.
ValidLesson(p) ==
    /\ {"course_id", "title", "content"} \subseteq DOMAIN p
    /\ Get(p, "order", 0) >= 0

Lesson(p) ==
    [course_id |-> p.course_id,
     title     |-> p.title,
     content   |-> p.content,
     video_url |-> Get(p, "video_url", None),
     order     |-> Get(p, "order", 0)]

\* Enrollment: required fields present, 0 <= progress <= 100.
ValidEnrollment(p) ==
    /\ {"course_id", "user_email", "user_name"} \subseteq DOMAIN p
    /\ Get(p, "progress", 0) >= 0
    /\ Get(p, "progress", 0) <= 100

Enrollment(p) ==
    [course_id  |-> p.course_id,
     user_email |-> p.user_email,
     user_name  |-> p.user_name,
     progress   |-> Get(p, "progress", 0)]

\* Mutant of ValidReview: the upper bound of rating (le=5) is missing.
ValidReviewNoUpper(p) ==
    /\ {"course_id", "user_email", "user_name", "rating"} \subseteq DOMAIN p
    /\ p.rating >= 1

\* Review: required fields (rating among them) present, 1 <= rating <= 5.
ValidReview(p) ==
    /\ {"course_id", "user_email", "user_name", "rating"} \subseteq DOMAIN p
    /\ p.rating >= 1
    /\ p.rating <= 5

Review(p) ==
    [course_id  |-> p.course_id,
     user_email |-> p.user_email,
     user_name  |-> p.user_name,
     rating     |-> p.rating,
     comment    |-> Get(p, "comment", None)]

\* ------------------------------------------------------------------------
\* Inputs the clients draw their requests from
\* ------------------------------------------------------------------------

\* String form of the identifier of the n-th inserted document.
IdStr(n) == ObjectIdStr(NewObjectId(n))

UpperId1 == [i \in 1..ObjectIdLen |-> IF i = 1 THEN "A" ELSE IdStr(1)[i]]
AbsentId == [i \in 1..ObjectIdLen |-> "f"]
NonHexId == [i \in 1..ObjectIdLen |-> IF i = 1 THEN "g" ELSE "0"]
ShortId  == [i \in 1..(ObjectIdLen - 1) |-> "0"]
NotAnId  == <<"n","o","t","-","a","-","v","a","l","i","d","-","i","d">>

\* course_id path values of GET /api/courses/{course_id}.
CoursePathIds == {IdStr(1), UpperId1, AbsentId, NonHexId, ShortId, NotAnId}

\* course_id path values of the per-course listings.
ListPathIds == {IdStr(1), NotAnId}

CourseMin ==
    [title            |-> <<"P","y","t","h","o","n"," ","B","a","s","i","c","s">>,
     description      |-> <<"S","t","a","r","t"," ","c","o","d","i","n","g">>,
     instructor_name  |-> "Ann",
     instructor_email |-> "ann@example.com"]

CourseFull ==
    [title            |-> <<"R","e","a","c","t"," ","H","o","o","k","s">>,
     subtitle         |-> Some(<<"A","d","v","a","n","c","e","d"," ","p","a","t","t",
                "e","r","n","s">>),
     description      |-> <<"D","e","e","p"," ","d","i","v","e">>,
     instructor_name  |-> "Bob",
     instructor_email |-> "bob@example.com",
     price            |-> 4900,
     thumbnail_url    |-> Some("https://example.com/hooks.png"),
     tags             |-> << <<"r","e","a","c","t">>, <<"p","y","t","h","o","n","3">> >>,
     language         |-> "Spanish",
     level            |-> "Advanced"]

CoursePayloads ==
    {CourseMin,
     CourseFull,
     ("price" :> (0 - 1)) @@ CourseMin,
     [description |-> <<"N","o"," ","t","i","t","l","e">>, instructor_name |-> "Ann",
      instructor_email |-> "ann@example.com"]}

LessonPayloads ==
    {[course_id |-> IdStr(1), title |-> "Setup", content |-> "Install", order |-> 2],
     [course_id |-> IdStr(1), title |-> "Intro", content |-> "Hello", order |-> 1],
     [course_id |-> NotAnId, title |-> "Loose", content |-> "Text"],
     [course_id |-> NotAnId, title |-> "Video", content |-> "Watch",
      video_url |-> Some("https://example.com/v.mp4"), order |-> 1],
     [course_id |-> IdStr(1), title |-> "Bad", content |-> "Text", order |-> 0 - 1],
     [course_id |-> IdStr(1), title |-> "NoContent"]}

EnrollmentPayloads ==
    {[course_id |-> IdStr(1), user_email |-> "u@example.com", user_name |-> "Uma"],
     [course_id |-> NotAnId, user_email |-> "v@example.com", user_name |-> "Vic",
      progress |-> 100],
     [course_id |-> IdStr(1), user_email |-> "u@example.com", user_name |-> "Uma",
      progress |-> 150],
     [course_id |-> IdStr(1), user_email |-> "u@example.com", user_name |-> "Uma",
      progress |-> 0 - 1]}

ReviewPayloads ==
    {[course_id |-> IdStr(1), user_email |-> "u@example.com", user_name |-> "Uma",
      rating |-> 1],
     [course_id |-> NotAnId, user_email |-> "v@example.com", user_name |-> "Vic",
      rating |-> 5, comment |-> Some("Great")],
     [course_id |-> IdStr(1), user_email |-> "u@example.com", user_name |-> "Uma",
      rating |-> 0],
     [course_id |-> IdStr(1), user_email |-> "u@example.com", user_name |-> "Uma",
      rating |-> 6],
     [course_id |-> IdStr(1), user_email |-> "u@example.com", user_name |-> "Uma"]}

\* tag and q query parameters: absent, empty, or a string.
TagParams == {None, Some(<<>>), Some(<<"p","y","t","h","o","n">>)}
QParams == {None, Some(<<"R","E","A","C","T">>), Some(<<"r",".","a","c","t">>)}

\* limit query parameter: the default and a small one.
DefaultLimit == 50
LimitParams == {DefaultLimit, 1}

\* Lessons another client of the store wrote: the second has no `order` field.
LegacyLessons ==
    << [_id       |-> [i \in 1..ObjectIdLen |-> 11],
        course_id |-> NotAnId,
        title     |-> "Legacy B",
        content   |-> "Imported",
        video_url |-> None,
        order     |-> 2],
       [_id       |-> [i \in 1..ObjectIdLen |-> 12],
        course_id |-> NotAnId,
        title     |-> "Legacy A",
        content   |-> "Imported",
        video_url |-> None] >>

\* ------------------------------------------------------------------------
\* State
\* ------------------------------------------------------------------------

VARIABLES
    db,       \* the store: collection name -> documents in insertion order
    nextId,   \* the store's identifier generator
    nreq,     \* requests received so far; a request's number names it
    seeds,    \* POST /api/seed requests: number -> position and locals
    last,     \* the request answered last, with its response
    log,      \* history: every insert, with its request, payload and returned id
    overlap   \* history: pairs of seed requests in flight on an empty store

vars == <<db, nextId, nreq, seeds, last, log, overlap>>

Collections == {"course", "lesson", "enrollment", "review"}

EmptyStore == [c \in Collections |-> <<>>]

\* ------------------------------------------------------------------------
\* Document store adapter (create_document, get_documents)
\* ------------------------------------------------------------------------

\* The document an insert of `rec` stores as the store's n-th document.
InsertedDoc(rec, n) == ("_id" :> NewObjectId(n)) @@ rec

\* create_document(collection, record): one document appended to one
\* collection of store `d`.
create_document(d, coll, rec, n) ==
    [d EXCEPT ![coll] = Append(@, InsertedDoc(rec, n))]

\* One condition of a filter the handlers build: an exact match on _id or
\* course_id, {"$in": [tag]} on tags, or the "$or" of the four "$regex"
\* conditions (a regex on a list field matches when an element matches, and
\* matches no None).
MatchesCond(doc, k, v) ==
    CASE k = "_id" -> doc._id = v
      [] k = "course_id" -> doc.course_id = v
      [] k = "tags" -> \E i \in DOMAIN doc.tags : doc.tags[i] = v
      [] k = "or" ->
            \/ RegexSearch(v, doc.title)
            \/ doc.subtitle # None /\ RegexSearch(v, doc.subtitle[1])
            \/ RegexSearch(v, doc.description)
            \/ \E i \in DOMAIN doc.tags : RegexSearch(v, doc.tags[i])

\* A filter is the conjunction of its conditions; the empty filter matches all.
Matches(doc, filter) == \A k \in DOMAIN filter : MatchesCond(doc, k, filter[k])

Take(s, n) == SubSeq(s, 1, IF n < Len(s) THEN n ELSE Len(s))

\* A document as a query returns it: its fields plus its identifier, a string.
Returned(doc) == [doc EXCEPT !._id = ObjectIdStr(@)]

\* get_documents(collection, filter, limit): up to `limit` matching documents
\* of store `d`, in the store's order.
get_documents(d, coll, filter, limit) ==
    LET hits == SelectSeq(d[coll], LAMBDA doc : Matches(doc, filter))
        cut  == Take(hits, limit)
    IN  [i \in 1..Len(cut) |-> Returned(cut[i])]

\* ------------------------------------------------------------------------
\* Outcomes of a handler: the response, the store after it, the inserts it
\* made, the store calls it issued and whether one of them raised
\* ------------------------------------------------------------------------

\* Status of FastAPI's answer to a body that fails its schema.
ValidationStatus == 422

Answer(code, body, d, ins, calls, failed) ==
    [status |-> code, body |-> body, db |-> d, ins |-> ins,
     calls |-> calls, failed |-> failed]

\* raise HTTPException(status_code=code, detail=detail)
HTTPException(code, detail, calls, failed) ==
    Answer(code, [detail |-> detail], db, <<>>, calls, failed)

\* The request body did not validate: the handler is not called.
RequestValidationError ==
    Answer(ValidationStatus, [detail |-> "validation error"], db, <<>>, 0, FALSE)

\* `except Exception as e: raise HTTPException(status_code=500, ...)` around
\* a store call that raised.
StoreError(calls) == HTTPException(500, "store error", calls, TRUE)

\* A create_document call that succeeded, answered with {"id": ...}.
Created(coll, rec) ==
    Answer(200, [id |-> IdStr(nextId)], create_document(db, coll, rec, nextId),
           <<[coll |-> coll, doc |-> InsertedDoc(rec, nextId)]>>, 1, FALSE)

\* A get_documents call that succeeded, answered with `body`.
Found(body) == Answer(200, body, db, <<>>, 1, FALSE)

\* ------------------------------------------------------------------------
\* Handlers (src/main.py).  `fails`: the handler's store call raises.
\* ------------------------------------------------------------------------

create_course(course, fails) ==
    IF fails THEN StoreError(1) ELSE Created("course", course)

list_courses(tag, q, limit, fails) ==
    LET filter_dict ==
            (IF Truthy(tag) THEN "tags" :> tag[1] ELSE <<>>)
            @@ (IF Truthy(q) THEN "or" :> q[1] ELSE <<>>)
    IN  IF fails THEN StoreError(1)
        ELSE Found(get_documents(db, "course", filter_dict, limit))

\* The try block of get_course: what it raises or returns.
get_course_try(course_id, fails) ==
    IF ~is_valid(course_id)
    THEN [raised |-> "HTTPException",
          out |-> HTTPException(400, "Invalid course ID", 0, FALSE)]
    ELSE IF fails
    THEN [raised |-> "Exception", out |-> StoreError(1)]
    ELSE LET docs == get_documents(db, "course", "_id" :> ObjectId(course_id), 1)
         IN  IF docs = <<>>
             THEN [raised |-> "HTTPException",
                   out |-> HTTPException(404, "Course not found", 1, FALSE)]
             ELSE [raised |-> "none", out |-> Found(docs[1])]

\* Mutant of get_course: no `except HTTPException: raise`, so the handler's
\* `except Exception` turns every exception into a 500.
get_course_catch_all(course_id, fails) ==
    LET t == get_course_try(course_id, fails)
    IN  IF t.raised = "none" THEN t.out
        ELSE HTTPException(500, "store error", t.out.calls, t.out.failed)

\* The except clauses of get_course: an HTTPException is raised again as it
\* is, any other exception becomes a 500.
get_course(course_id, fails) ==
    LET t == get_course_try(course_id, fails)
    IN  CASE t.raised = "HTTPException" -> t.out
          [] t.raised = "Exception" -> StoreError(t.out.calls)
          [] OTHER -> t.out

create_lesson(lesson, fails) ==
    IF fails THEN StoreError(1) ELSE Created("lesson", lesson)

\* key=lambda x: x.get("order", 0)
OrderKey(x) == Get(x, "order", 0)

\* x put into the sorted sequence s after every element whose key is not
\* greater (sorted() is stable).
InsertSorted(s, x) ==
    LET c == Cardinality({i \in 1..Len(s) : OrderKey(s[i]) <= OrderKey(x)})
    IN  SubSeq(s, 1, c) \o <<x>> \o SubSeq(s, c + 1, Len(s))

RECURSIVE sorted(_)
sorted(s) ==
    IF s = <<>> THEN <<>>
    ELSE InsertSorted(sorted(SubSeq(s, 1, Len(s) - 1)), s[Len(s)])

\* Mutant of list_lessons: the listing is returned in the store's order.
list_lessons_unsorted(course_id, fails) ==
    IF fails THEN StoreError(1)
    ELSE Found(get_documents(db, "lesson", "course_id" :> course_id, 200))

LessonsLimit == 200

list_lessons(course_id, fails) ==
    IF fails THEN StoreError(1)
    ELSE Found(sorted(get_documents(db, "lesson", "course_id" :> course_id,
                                    LessonsLimit)))

\* Mutant of enroll: an insert that raised is tried once more.
enroll_retry(enrollment, fails) ==
    IF fails
    THEN Answer(200, [id |-> IdStr(nextId)],
                create_document(db, "enrollment", enrollment, nextId),
                <<[coll |-> "enrollment", doc |-> InsertedDoc(enrollment, nextId)]>>,
                2, TRUE)
    ELSE Created("enrollment", enrollment)

\* Mutant of create_review: a user's earlier review of the course is replaced.
create_review_upsert(review, fails) ==
    LET same(d) == d.course_id = review.course_id /\ d.user_email = review.user_email
    IN  IF fails THEN StoreError(1)
        ELSE IF \E i \in DOMAIN db.review : same(db.review[i])
        THEN Answer(200, [id |-> IdStr(nextId)],
                    [db EXCEPT !["review"] =
                        [i \in DOMAIN @ |->
                            IF same(@[i]) THEN ("_id" :> @[i]._id) @@ review ELSE @[i]]],
                    <<>>, 1, FALSE)
        ELSE Created("review", review)

enroll(enrollment, fails) ==
    IF fails THEN StoreError(1) ELSE Created("enrollment", enrollment)

EnrollmentsLimit == 500

list_enrollments(course_id, fails) ==
    IF fails THEN StoreError(1)
    ELSE Found(get_documents(db, "enrollment", "course_id" :> course_id,
                             EnrollmentsLimit))

create_review(review, fails) ==
    IF fails THEN StoreError(1) ELSE Created("review", review)

ReviewsLimit == 200

list_reviews(course_id, fails) ==
    IF fails THEN StoreError(1)
    ELSE Found(get_documents(db, "review", "course_id" :> course_id,
                             ReviewsLimit))

\* ------------------------------------------------------------------------
\* The event loop
\* ------------------------------------------------------------------------

\* Mutant of LoopFree: handlers yield the loop at their store calls.
LoopFreeYielding(r) == TRUE

\* Every handler is an `async def` that awaits nothing, and uvicorn.run
\* serves the app on one event loop: a handler that has started runs to its
\* return before the handler of request r starts.
LoopFree(r) ==
    \A s \in DOMAIN seeds \ {r} : seeds[s].pc \in {"queued", "done"}

\* A request other than POST /api/seed: received, validated, handled and
\* answered in one turn of the loop (its handler makes one store call).
Serve(kind, args, out) ==
    /\ nreq < MaxReqs
    /\ LoopFree(0)
    /\ nreq' = nreq + 1
    /\ db' = out.db
    /\ nextId' = nextId + Len(out.ins)
    /\ log' = log \o [i \in 1..Len(out.ins) |->
                        [req |-> nreq + 1, coll |-> out.ins[i].coll,
                         doc |-> out.ins[i].doc, payload |-> args.payload,
                         id |-> out.body.id]]
    /\ last' = [req |-> nreq + 1, kind |-> kind, args |-> args,
                status |-> out.status, body |-> out.body,
                calls |-> out.calls, failed |-> out.failed,
                kept |-> (out.db = db)]
    /\ UNCHANGED <<seeds, overlap>>

PostCourse ==
    \E p \in CoursePayloads, fails \in BOOLEAN :
        Serve("create_course", [payload |-> p],
              IF ValidCourse(p) THEN create_course(Course(p), fails)
              ELSE RequestValidationError)

GetCourses ==
    \E tag \in TagParams, q \in QParams, limit \in LimitParams, fails \in BOOLEAN :
        Serve("list_courses", [tag |-> tag, q |-> q, limit |-> limit],
              list_courses(tag, q, limit, fails))

GetCourse ==
    \E course_id \in CoursePathIds, fails \in BOOLEAN :
        Serve("get_course", [course_id |-> course_id],
              get_course(course_id, fails))

PostLesson ==
    \E p \in LessonPayloads, fails \in BOOLEAN :
        Serve("create_lesson", [payload |-> p],
              IF ValidLesson(p) THEN create_lesson(Lesson(p), fails)
              ELSE RequestValidationError)

GetLessons ==
    \E course_id \in ListPathIds, fails \in BOOLEAN :
        Serve("list_lessons", [course_id |-> course_id],
              list_lessons(course_id, fails))

PostEnroll ==
    \E p \in EnrollmentPayloads, fails \in BOOLEAN :
        Serve("enroll", [payload |-> p],
              IF ValidEnrollment(p) THEN enroll(Enrollment(p), fails)
              ELSE RequestValidationError)

GetEnrollments ==
    \E course_id \in ListPathIds, fails \in BOOLEAN :
        Serve("list_enrollments", [course_id |-> course_id],
              list_enrollments(course_id, fails))

PostReview ==
    \E p \in ReviewPayloads, fails \in BOOLEAN :
        Serve("create_review", [payload |-> p],
              IF ValidReview(p) THEN create_review(Review(p), fails)
              ELSE RequestValidationError)

GetReviews ==
    \E course_id \in ListPathIds, fails \in BOOLEAN :
        Serve("list_reviews", [course_id |-> course_id],
              list_reviews(course_id, fails))

\* ------------------------------------------------------------------------
\* POST /api/seed (seed_demo): one step per store call
\* ------------------------------------------------------------------------

demo_courses ==
    << Course(
         [title            |-> <<"R","e","a","c","t"," ","f","o","r"," ","B","e","g",
                "i","n","n","e","r","s">>,
          subtitle         |-> Some(<<"B","u","i","l","d"," ","d","y","n","a","m","i",
                "c"," ","U","I","s"," ","w","i","t","h"," ","h","o","o","k","s">>),
          description      |-> <<"L","e","a","r","n"," ","t","h","e"," ","f","u","n",
                "d","a","m","e","n","t","a","l","s"," ","o","f"," ","R","e","a","c","t",
                ","," ","c","o","m","p","o","n","e","n","t","s",","," ","h","o","o","k",
                "s",","," ","a","n","d"," ","s","t","a","t","e"," ","m","a","n","a","g",
                "e","m","e","n","t"," ","b","y"," ","b","u","i","l","d","i","n","g"," ",
                "h","a","n","d","s","-","o","n"," ","p","r","o","j","e","c","t","s",".">>,
          instructor_name  |-> "Alex Johnson",
          instructor_email |-> "alex@example.com",
          price            |-> 1999,
          thumbnail_url    |-> Some("https://images.unsplash.com/photo-1526378722484-bd91ca387e72?w=800&q=80&auto=format&fit=crop"),
          tags             |-> << <<"r","e","a","c","t">>, <<"f","r","o","n","t","e",
                "n","d">>, <<"j","a","v","a","s","c","r","i","p","t">> >>,
          level            |-> "Beginner"]),
       Course(
         [title            |-> <<"F","a","s","t","A","P","I"," ","B","o","o","t","c",
                "a","m","p">>,
          subtitle         |-> Some(<<"M","o","d","e","r","n"," ","A","P","I","s"," ",
                "w","i","t","h"," ","P","y","t","h","o","n">>),
          description      |-> <<"C","r","e","a","t","e"," ","h","i","g","h","-","p",
                "e","r","f","o","r","m","a","n","c","e"," ","A","P","I","s"," ","w","i",
                "t","h"," ","F","a","s","t","A","P","I",","," ","P","y","d","a","n","t",
                "i","c",","," ","a","n","d"," ","M","o","n","g","o","D","B","."," ","I",
                "n","c","l","u","d","e","s"," ","d","e","p","l","o","y","m","e","n","t",
                " ","t","i","p","s",".">>,
          instructor_name  |-> "Samantha Lee",
          instructor_email |-> "sam@example.com",
          price            |-> 2499,
          thumbnail_url    |-> Some("https://images.unsplash.com/photo-1518779578993-ec3579fee39f?w=800&q=80&auto=format&fit=crop"),
          tags             |-> << <<"p","y","t","h","o","n">>, <<"a","p","i">>, <<"b",
                "a","c","k","e","n","d">> >>,
          level            |-> "Intermediate"]),
       Course(
         [title            |-> <<"D","e","s","i","g","n"," ","S","y","s","t","e","m",
                "s"," ","1","0","1">>,
          subtitle         |-> Some(<<"B","u","i","l","d"," ","c","o","h","e","s","i",
                "v","e"," ","U","I"," ","l","i","b","r","a","r","i","e","s">>),
          description      |-> <<"F","r","o","m"," ","t","y","p","o","g","r","a","p",
                "h","y"," ","t","o"," ","c","o","m","p","o","n","e","n","t","s",","," ",
                "l","e","a","r","n"," ","h","o","w"," ","t","o"," ","c","r","e","a","t",
                "e"," ","m","a","i","n","t","a","i","n","a","b","l","e"," ","d","e","s",
                "i","g","n"," ","s","y","s","t","e","m","s",".">>,
          instructor_name  |-> "Taylor Kim",
          instructor_email |-> "taylor@example.com",
          price            |-> 0,
          thumbnail_url    |-> Some("https://images.unsplash.com/photo-1529336953121-ad5a0d43d0d2?w=800&q=80&auto=format&fit=crop"),
          tags             |-> << <<"d","e","s","i","g","n">>, <<"u","i">>, <<"u","x">> >>,
          level            |-> "All Levels"]) >>

\* Mutant of LessonsPerCourse: range(1, 3).
LessonsPerCourseShort == 3 - 1

\* range(1, 4): the lessons of one demo course are l_idx = 1 .. LessonsPerCourse.
LessonsPerCourse == 3

\* The Lesson seed_demo builds for course `cid`.
demo_lesson(cid, l_idx) ==
    Lesson(
        [course_id |-> cid,
         title     |-> "Lesson " \o ToString(l_idx) \o ": Topic Overview",
         content   |-> "This is the content for lesson " \o ToString(l_idx)
                       \o ". You'll learn key concepts and apply them in a mini project.",
         video_url |-> None,
         order     |-> l_idx])

\* A seed request as received: its handler has not started.
QueuedSeed ==
    [pc |-> "queued", idx |-> 0, l_idx |-> 0, cid |-> <<>>, created_ids |-> <<>>,
     calls |-> 0, status |-> 0, body |-> <<>>, failed |-> FALSE,
     pre |-> EmptyStore, post |-> EmptyStore]

\* The handler of seed request r returns or raises: the request is answered.
SeedDone(r, code, body, calls, failed, d) ==
    /\ seeds' = [seeds EXCEPT ![r].pc = "done", ![r].status = code,
                              ![r].body = body, ![r].calls = calls,
                              ![r].failed = failed, ![r].post = d,
                              ![r].pre = IF seeds[r].pc = "queued" THEN db ELSE @]
    /\ last' = [req |-> r, kind |-> "seed_demo", args |-> <<>>, status |-> code,
                body |-> body, calls |-> calls, failed |-> failed,
                kept |-> (d = IF seeds[r].pc = "queued" THEN db ELSE seeds[r].pre)]

\* POST /api/seed is received.
SeedArrive ==
    /\ nreq < MaxReqs
    /\ nreq' = nreq + 1
    /\ seeds' = ((nreq + 1) :> QueuedSeed) @@ seeds
    /\ overlap' = overlap \cup
                    IF db = EmptyStore
                    THEN { {nreq + 1, s} : s \in {x \in DOMAIN seeds : seeds[x].pc # "done"} }
                    ELSE {}
    /\ UNCHANGED <<db, nextId, last, log>>

\* Mutant of seed_check: the demo data is created whatever the store holds.
seed_check_unconditional(r, fails) ==
    /\ seeds[r].pc = "queued"
    /\ LoopFree(r)
    /\ IF fails
       THEN SeedDone(r, 500, [detail |-> "store error"], 1, TRUE, db)
       ELSE /\ seeds' = [seeds EXCEPT ![r].pc = "course", ![r].idx = 1,
                                      ![r].calls = 1, ![r].pre = db]
            /\ UNCHANGED last
    /\ UNCHANGED <<db, nextId, nreq, log, overlap>>

\* existing = get_documents("course", {}, limit=1); if existing: return ...
seed_check(r, fails) ==
    /\ seeds[r].pc = "queued"
    /\ LoopFree(r)
    /\ IF fails
       THEN SeedDone(r, 500, [detail |-> "store error"], 1, TRUE, db)
       ELSE IF get_documents(db, "course", <<>>, 1) # <<>>
       THEN SeedDone(r, 200, [status |-> "ok", message |-> "Courses already exist"],
                     1, FALSE, db)
       ELSE /\ seeds' = [seeds EXCEPT ![r].pc = "course", ![r].idx = 1,
                                      ![r].calls = 1, ![r].pre = db]
            /\ UNCHANGED last
    /\ UNCHANGED <<db, nextId, nreq, log, overlap>>

\* cid = create_document("course", c); created_ids.append(cid)
seed_course(r, fails) ==
    /\ seeds[r].pc = "course"
    /\ IF fails
       THEN /\ SeedDone(r, 500, [detail |-> "store error"], seeds[r].calls + 1, TRUE, db)
            /\ UNCHANGED <<db, nextId, log>>
       ELSE /\ db' = create_document(db, "course", demo_courses[seeds[r].idx], nextId)
            /\ nextId' = nextId + 1
            /\ log' = Append(log, [req |-> r, coll |-> "course",
                                   doc |-> InsertedDoc(demo_courses[seeds[r].idx], nextId),
                                   payload |-> demo_courses[seeds[r].idx],
                                   id |-> IdStr(nextId)])
            /\ seeds' = [seeds EXCEPT ![r].pc = "lesson", ![r].l_idx = 1,
                                      ![r].cid = IdStr(nextId),
                                      ![r].created_ids = Append(@, IdStr(nextId)),
                                      ![r].calls = @ + 1]
            /\ UNCHANGED last
    /\ UNCHANGED <<nreq, overlap>>

\* create_document("lesson", Lesson(course_id=cid, ..., order=l_idx)); after
\* the last lesson of the last course: return the created identifiers.
seed_lesson(r, fails) ==
    /\ seeds[r].pc = "lesson"
    /\ IF fails
       THEN /\ SeedDone(r, 500, [detail |-> "store error"], seeds[r].calls + 1, TRUE, db)
            /\ UNCHANGED <<db, nextId, log>>
       ELSE LET lesson == demo_lesson(seeds[r].cid, seeds[r].l_idx)
                d == create_document(db, "lesson", lesson, nextId)
            IN  /\ db' = d
                /\ nextId' = nextId + 1
                /\ log' = Append(log, [req |-> r, coll |-> "lesson",
                                       doc |-> InsertedDoc(lesson, nextId),
                                       payload |-> lesson, id |-> IdStr(nextId)])
                /\ IF seeds[r].l_idx < LessonsPerCourse
                   THEN /\ seeds' = [seeds EXCEPT ![r].l_idx = @ + 1, ![r].calls = @ + 1]
                        /\ UNCHANGED last
                   ELSE IF seeds[r].idx < Len(demo_courses)
                   THEN /\ seeds' = [seeds EXCEPT ![r].pc = "course", ![r].idx = @ + 1,
                                                  ![r].calls = @ + 1]
                        /\ UNCHANGED last
                   ELSE SeedDone(r, 200,
                                 [status |-> "ok",
                                  created_courses |-> seeds[r].created_ids],
                                 seeds[r].calls + 1, FALSE, d)
    /\ UNCHANGED <<nreq, overlap>>

SeedCheck == \E r \in DOMAIN seeds, fails \in BOOLEAN : seed_check(r, fails)

SeedCourse == \E r \in DOMAIN seeds, fails \in BOOLEAN : seed_course(r, fails)

SeedLesson == \E r \in DOMAIN seeds, fails \in BOOLEAN : seed_lesson(r, fails)

\* ------------------------------------------------------------------------
\* Specification
\* ------------------------------------------------------------------------

\* The store is external: it starts empty, or holding a lesson that another
\* client wrote.
Init ==
    /\ db \in {EmptyStore, [EmptyStore EXCEPT !["lesson"] = LegacyLessons]}
    /\ nextId = 1
    /\ nreq = 0
    /\ seeds = <<>>
    /\ last = [req |-> 0, kind |-> "none", args |-> <<>>, status |-> 0,
               body |-> <<>>, calls |-> 0, failed |-> FALSE, kept |-> TRUE]
    /\ log = <<>>
    /\ overlap = {}

Next ==
    \/ PostCourse
    \/ GetCourses
    \/ GetCourse
    \/ PostLesson
    \/ GetLessons
    \/ PostEnroll
    \/ GetEnrollments
    \/ PostReview
    \/ GetReviews
    \/ SeedArrive
    \/ SeedCheck
    \/ SeedCourse
    \/ SeedLesson

Spec == Init /\ [][Next]_vars

\* ------------------------------------------------------------------------
\* Vocabulary of the properties
\* ------------------------------------------------------------------------

CreateKinds == {"create_course", "create_lesson", "enroll", "create_review"}

ListKinds == {"list_courses", "list_lessons", "list_enrollments", "list_reviews"}

GetKinds == ListKinds \cup {"get_course"}

\* The collection a create request writes.
OwnCollection(kind) ==
    CASE kind = "create_course" -> "course"
      [] kind = "create_lesson" -> "lesson"
      [] kind = "enroll" -> "enrollment"
      [] kind = "create_review" -> "review"

\* No seed_demo handler is between its first store call and its return: the
\* store is as the request answered last left it.
NoSeedInProgress == \A s \in DOMAIN seeds : seeds[s].pc \in {"queued", "done"}

\* The inserts request r made.
InsertsBy(r) == SelectSeq(log, LAMBDA e : e.req = r)

Range(s) == {s[i] : i \in DOMAIN s}

\* The lessons of store `d` that name course `cid`.
LessonsOf(d, cid) == SelectSeq(d.lesson, LAMBDA l : l.course_id = cid)

\* Every course of store `d` has exactly three lessons.
ThreeLessonsEach(d) ==
    \A i \in DOMAIN d.course :
        Len(LessonsOf(d, ObjectIdStr(d.course[i]._id))) = 3

AlreadyExist == [status |-> "ok", message |-> "Courses already exist"]

\* ------------------------------------------------------------------------
\* C1
\* ------------------------------------------------------------------------

\* C1: a seed request handled when a course already exists inserts nothing,
\* leaves the store as it found it and, its store call answering, reports
\* "Courses already exist"; of two seed requests handled in succession from
\* an empty store, the store calls answering, the second leaves the store as
\* the first left it: exactly 3 courses, each with exactly 3 lessons.
SeedIsIdempotent ==
    \A r \in DOMAIN seeds :
        seeds[r].pc = "done" =>
            /\ seeds[r].pre.course # <<>> =>
                /\ InsertsBy(r) = <<>>
                /\ seeds[r].post = seeds[r].pre
                /\ ~seeds[r].failed =>
                       seeds[r].status = 200 /\ seeds[r].body = AlreadyExist
            /\ \A r2 \in DOMAIN seeds :
                (/\ seeds[r2].pc = "done"
                 /\ seeds[r].pre = EmptyStore
                 /\ seeds[r2].pre = seeds[r].post
                 /\ r2 # r
                 /\ ~seeds[r].failed
                 /\ ~seeds[r2].failed) =>
                    /\ seeds[r2].post = seeds[r].post
                    /\ seeds[r2].body = AlreadyExist
                    /\ Len(seeds[r2].post.course) = 3
                    /\ Len(seeds[r2].post.lesson) = 9
                    /\ ThreeLessonsEach(seeds[r2].post)

\* Two seed requests were handled from an empty store: the first created the
\* demo data, the second reported that courses exist.
SeededTwice ==
    \E r, r2 \in DOMAIN seeds :
        /\ seeds[r].pc = "done" /\ seeds[r2].pc = "done"
        /\ seeds[r].pre = EmptyStore
        /\ seeds[r].status = 200 /\ Len(seeds[r].created_ids) = 3
        /\ seeds[r2].pre = seeds[r].post
        /\ seeds[r2].body = AlreadyExist

\* ------------------------------------------------------------------------
\* C2
\* ------------------------------------------------------------------------

\* The payload of the request answered last violates a bound of its schema.
BoundViolated ==
    /\ last.kind \in CreateKinds
    /\ LET p == last.args.payload
       IN  \/ last.kind = "create_review" /\ Has(p, "rating") /\ p.rating \notin 1..5
           \/ last.kind = "enroll" /\ Has(p, "progress") /\ p.progress \notin 0..100
           \/ last.kind = "create_course" /\ Has(p, "price") /\ p.price < 0
           \/ last.kind = "create_lesson" /\ Has(p, "order") /\ p.order < 0

HexDigitChars ==
    {"0","1","2","3","4","5","6","7","8","9",
     "a","b","c","d","e","f","A","B","C","D","E","F"}

\* A well-formed store identifier: 24 hexadecimal digits.
WellFormed(s) == Len(s) = 24 /\ \A i \in 1..Len(s) : s[i] \in HexDigitChars

\* Some course of the store has identifier `s` (in either letter case).
CourseWithId(s) ==
    \E i \in DOMAIN db.course :
        ObjectIdStr(db.course[i]._id) = [j \in 1..Len(s) |-> Lower(s[j])]

\* C3: GET /api/courses/{course_id} answers 400 when course_id is not
\* well-formed, 404 when it is well-formed and names no course, and 500
\* exactly when its store call failed; 400 and 404 are never turned into 500.
GetCourseStatus ==
    (NoSeedInProgress /\ last.kind = "get_course") =>
        LET id == last.args.course_id
        IN  /\ ~WellFormed(id) => last.status = 400 /\ last.calls = 0
            /\ (WellFormed(id) /\ ~last.failed /\ ~CourseWithId(id)) => last.status = 404
            /\ (WellFormed(id) /\ ~last.failed /\ CourseWithId(id)) => last.status = 200
            /\ last.status = 500 <=> last.failed

\* A well-formed identifier that names no course was looked up in a store
\* that holds a course, and answered 404.
LookedUpAbsentCourse ==
    /\ last.kind = "get_course"
    /\ WellFormed(last.args.course_id)
    /\ last.status = 404
    /\ db.course # <<>>

\* ------------------------------------------------------------------------
\* C4
\* ------------------------------------------------------------------------

CourseDefaults ==
    [subtitle |-> None, price |-> 0, thumbnail_url |-> None, tags |-> <<>>,
     language |-> "English", level |-> "Beginner"]

\* The record a GET is to return for payload p created under identifier id.
ExpectedCourse(p, id) == ("_id" :> id) @@ p @@ CourseDefaults

OrderOrZero(l) == IF "order" \in DOMAIN l THEN l.order ELSE 0

\* C5: GET /api/courses/{course_id}/lessons whose store call answers returns,
\* whatever the form of course_id, exactly the stored lessons whose course_id
\* is the path value, in non-decreasing order of `order` (0 when absent).
LessonsListedInOrder ==
    (NoSeedInProgress /\ last.kind = "list_lessons" /\ ~last.failed) =>
        LET b == last.body
        IN  /\ last.status = 200
            /\ \A i \in DOMAIN b : b[i].course_id = last.args.course_id
            /\ \A i, j \in DOMAIN b : i < j => OrderOrZero(b[i]) <= OrderOrZero(b[j])
            /\ Len(b) = Len(LessonsOf(db, last.args.course_id))
            /\ Range(b) = {Returned(l) : l \in Range(LessonsOf(db, last.args.course_id))}

\* Lessons were listed for a path value that is no identifier, and the
\* listing moved a lesson without an order ahead of one stored before it.
ListedOutOfStoreOrder ==
    /\ last.kind = "list_lessons"
    /\ last.status = 200
    /\ ~WellFormed(last.args.course_id)
    /\ Len(last.body) >= 2
    /\ "order" \notin DOMAIN last.body[1]
    /\ last.body[1]._id # ObjectIdStr(LessonsOf(db, last.args.course_id)[1]._id)

\* ------------------------------------------------------------------------
\* C6
\* ------------------------------------------------------------------------

\* q is a substring of text, letter case ignored.
ContainsCI(q, text) ==
    \E start \in 1..(Len(text) - Len(q) + 1) :
        \A j \in 1..Len(q) : Lower(q[j]) = Lower(text[start + j - 1])

\* A query parameter is given: present and not empty.
Given(opt) == opt # None /\ opt[1] # <<>>

\* C6 as claimed: every course GET /api/courses returns has the given tag
\* among its tags and contains the given q, letter case ignored, as a
\* substring of its title, subtitle, description or one of its tags; with
\* neither given, no course is filtered out.
CourseFilterIsSubstring ==
    (NoSeedInProgress /\ last.kind = "list_courses" /\ last.status = 200) =>
        LET tag == last.args.tag
            q   == last.args.q
            b   == last.body
        IN  /\ \A i \in DOMAIN b :
                /\ Given(tag) => tag[1] \in Range(b[i].tags)
                /\ Given(q) =>
                    \/ ContainsCI(q[1], b[i].title)
                    \/ b[i].subtitle # None /\ ContainsCI(q[1], b[i].subtitle[1])
                    \/ ContainsCI(q[1], b[i].description)
                    \/ \E t \in Range(b[i].tags) : ContainsCI(q[1], t)
            /\ (~Given(tag) /\ ~Given(q)) =>
                Len(b) = (IF last.args.limit < Len(db.course)
                          THEN last.args.limit ELSE Len(db.course))

\* ------------------------------------------------------------------------
\* C7
\* ------------------------------------------------------------------------

\* C7: a create or list request issues at most one store call; when that
\* call fails the request is answered 500 and leaves the store as it was,
\* with no document of its own.
StoreFailureSurfacedOnce ==
    last.kind \in CreateKinds \cup ListKinds =>
        /\ last.calls <= 1
        /\ last.failed =>
            /\ last.status = 500
            /\ last.calls = 1
            /\ last.kept
            /\ InsertsBy(last.req) = <<>>
        /\ last.status = 500 => last.failed

\* An enrollment's insert failed on a store that holds documents.
EnrollInsertFailed ==
    /\ last.kind = "enroll"
    /\ last.failed
    /\ last.status = 500
    /\ db # EmptyStore

\* ------------------------------------------------------------------------
\* C8
\* ------------------------------------------------------------------------

IsPrefix(s, t) == Len(s) <= Len(t) /\ SubSeq(t, 1, Len(s)) = s

\* A request is answered in this step.
Answered == last'.req # last.req

\* C8: in every step each collection keeps its documents, unchanged and in
\* place; a create request answered 200 appends one document to its own
\* collection and leaves the others; a GET request leaves every collection.
AppendOnly ==
    [][/\ \A c \in Collections : IsPrefix(db[c], db'[c])
       /\ (Answered /\ last'.kind \in CreateKinds /\ last'.status = 200) =>
            /\ Len(db'[OwnCollection(last'.kind)]) = Len(db[OwnCollection(last'.kind)]) + 1
            /\ \A c \in Collections \ {OwnCollection(last'.kind)} : db'[c] = db[c]
       /\ (Answered /\ last'.kind \in GetKinds) => db' = db
      ]_vars

\* A second enrollment was stored behind the first.
SecondEnrollmentStored ==
    /\ last.kind = "enroll"
    /\ last.status = 200
    /\ Len(db.enrollment) = 2

\* ------------------------------------------------------------------------
\* C9
\* ------------------------------------------------------------------------

\* The courses seed requests inserted.
SeededCourses == SelectSeq(log, LAMBDA e : e.req \in DOMAIN seeds /\ e.coll = "course")

\* C9 as claimed: whenever no seed request is in progress, every course a
\* seed request created has exactly 3 lessons, of orders 1, 2 and 3.
SeededCoursesComplete ==
    NoSeedInProgress =>
        \A i \in DOMAIN SeededCourses :
            LET ls == LessonsOf(db, SeededCourses[i].id)
            IN  /\ Len(ls) = 3
                /\ {ls[j].order : j \in DOMAIN ls} = {1, 2, 3}

\* The orders of the lessons request r inserted for course cid.
SeededOrders(r, cid) ==
    LET mine == SelectSeq(InsertsBy(r),
                          LAMBDA e : e.coll = "lesson" /\ e.doc.course_id = cid)
    IN  [j \in DOMAIN mine |-> mine[j].doc.order]

\* C9 as amended: a seed request answered 200 with created_courses inserted
\* 3 courses and, for each, 3 lessons of orders 1, 2, 3 that name it, all of
\* them in the store.
SeedSuccessComplete ==
    \A r \in DOMAIN seeds :
        (seeds[r].pc = "done" /\ seeds[r].status = 200
            /\ "created_courses" \in DOMAIN seeds[r].body) =>
            LET ids == seeds[r].body.created_courses
                mine == InsertsBy(r)
            IN  /\ Len(ids) = 3
                /\ Len(mine) = 12
                /\ [i \in 1..3 |-> SelectSeq(mine, LAMBDA e : e.coll = "course")[i].id] = ids
                /\ \A i \in 1..3 : SeededOrders(r, ids[i]) = <<1, 2, 3>>
                /\ \A j \in DOMAIN mine : \E k \in DOMAIN db[mine[j].coll] :
                        db[mine[j].coll][k] = mine[j].doc

\* A seed request created the demo data and was answered.
SeedSucceeded ==
    \E r \in DOMAIN seeds :
        /\ seeds[r].pc = "done"
        /\ seeds[r].status = 200
        /\ "created_courses" \in DOMAIN seeds[r].body
        /\ Len(db.lesson) >= 9

\* ------------------------------------------------------------------------
\* C10
\* ------------------------------------------------------------------------

====
